---- MODULE Spec2Model ----
(***************************************************************************)
(* Verificador de modificaciones de articulos del BOE.                     *)
(*                                                                         *)
(* The model covers the amendment-detection core of api.js                 *)
(* (buscarArticuloEnIndice, buscarModificacionesArticulo and the           *)
(* orchestrating comprobarModificacionArticulo), the batch loop of         *)
(* index.js (main) and the classification of reporter.js (generarInforme). *)
(*                                                                         *)
(* JavaScript values are represented as follows.                           *)
(*   - An object is a record; a field the object does not have is a field  *)
(*     the record does not have (Has).                                     *)
(*   - The value null, where an object is expected, is JSNull.             *)
(*   - A string that the code searches with String.includes is a sequence  *)
(*     of tokens: the word "Artículo " (with its letter case) is one       *)
(*     token, every other character is a token of its own.                 *)
(*   - A string the code only copies, tests for truthiness or hands to     *)
(*     new Date() is a TLA+ string; the null of such a field is Nulo and   *)
(*     its undefined is Indefinido.                                        *)
(*   - A Date is a record [nan, t]: nan says that the time value is NaN    *)
(*     (an Invalid Date), t is the time value otherwise.                   *)
(***************************************************************************)
EXTENDS Integers, Sequences, FiniteSets, TLC

VARIABLES
    pc,               \* position of the running procedure
    articulos,        \* main: the list read by leerArticulos
    fechaReferencia,  \* main: the reference date (a valid Date)
    i,                \* main: index of the for loop (1-based)
    resultados,       \* main: the results pushed so far
    numeroArticulo,   \* comprobarModificacionArticulo: parameter
    indice,           \* comprobarModificacionArticulo: const indice
    articulo,         \* comprobarModificacionArticulo: const articulo
    analisis,         \* comprobarModificacionArticulo: const analisis
    modificaciones,   \* comprobarModificacionArticulo: const modificaciones
    resultado,        \* main: how the awaited comprobarModificacionArticulo ended
    llamadas,         \* the external calls issued so far, in order, each with its state
    escapadas,        \* exceptions that left comprobarModificacionArticulo
    informe           \* generarInforme: counters and classified lists

vars == <<pc, articulos, fechaReferencia, i, resultados, numeroArticulo, indice,
          articulo, analisis, modificaciones, resultado, llamadas, escapadas,
          informe>>

-----------------------------------------------------------------------------
(* Bounds of the model *)

\* largest number of nodes of an index document (SpecLocator)
MaxNodos == 3
\* largest number of records of an amendments collection (SpecResolver)
MaxMods == 3
\* largest number of lines of the articles file (Spec)
MaxArticulos == 2

-----------------------------------------------------------------------------
(* JavaScript values *)

Has(o, f) == f \in DOMAIN o

JSNull == [jsnull |-> TRUE]

Nulo == "null"

\* the value undefined of a string field
Indefinido == "undefined"

\* o.f: the field, undefined when the object does not have it
Get(o, f) == IF Has(o, f) THEN o[f] ELSE Indefinido

\* !v for a string value: null, undefined and the empty string are falsy
Falsy(v) == v = Nulo \/ v = Indefinido \/ v = ""

NoDisponible == "No disponible"

\* String.prototype.includes on token sequences: needle occurs contiguously
Includes(hay, needle) ==
    \E k \in 0..(Len(hay) - Len(needle)) :
        \A j \in 1..Len(needle) : hay[k + j] = needle[j]

\* truthiness of a string field that may be absent, null or empty
Truthy(o, f) == ~Falsy(Get(o, f))

\* truthiness of a token-sequence field that may be absent or empty
TruthySeq(o, f) == Has(o, f) /\ o[f] # <<>>

-----------------------------------------------------------------------------
(* Index Locator: buscarArticuloEnIndice *)

Articulo == "Artículo "

\* the template literal `Artículo ${numeroArticulo}`
Patron(numero) == <<Articulo>> \o numero

\* String.prototype.toLowerCase on the tokens of the model
Minusculas(tok) ==
    CASE tok = "Artículo " -> "artículo "
      [] tok = "ARTÍCULO " -> "artículo "
      [] OTHER -> tok

EnMinusculas(s) == [k \in 1..Len(s) |-> Minusculas(s[k])]

\* a mutant of Coincide: the label is compared without regard to letter case
CoincideSinCaja(item, numero) ==
    /\ item.tipo = "articulo"
    /\ TruthySeq(item, "titulo")
    /\ Includes(EnMinusculas(item.titulo), EnMinusculas(Patron(numero)))

\* item.tipo === 'articulo' && item.titulo && item.titulo.includes(...)
Coincide(item, numero) ==
    /\ item.tipo = "articulo"
    /\ TruthySeq(item, "titulo")
    /\ Includes(item.titulo, Patron(numero))

\* item.items && item.items.length > 0
TieneSubitems(item) == Has(item, "items") /\ Len(item.items) > 0

RECURSIVE buscarHijosPrimero(_, _)
\* a mutant of buscarEnItems: the sub-items are searched before the item
buscarHijosPrimero(items, numero) ==
    IF items = <<>> THEN JSNull
    ELSE LET item == Head(items)
             encontrado == IF TieneSubitems(item)
                           THEN buscarHijosPrimero(item.items, numero)
                           ELSE JSNull
         IN  IF encontrado # JSNull THEN encontrado
             ELSE IF Coincide(item, numero) THEN item
             ELSE buscarHijosPrimero(Tail(items), numero)

RECURSIVE buscarEnItems(_, _)
\* the closure buscarEnItems: the for loop over items, the item first, then
\* its sub-items, then the rest of the list
buscarEnItems(items, numero) ==
    IF items = <<>> THEN JSNull
    ELSE LET item == Head(items)
         IN  IF Coincide(item, numero) THEN item
             ELSE LET encontrado == IF TieneSubitems(item)
                                    THEN buscarEnItems(item.items, numero)
                                    ELSE JSNull
                  IN  IF encontrado # JSNull THEN encontrado
                      ELSE buscarEnItems(Tail(items), numero)

\* buscarEnItems(indice.items), with `items || []`
buscarArticuloEnIndice(ind, numero) ==
    buscarEnItems(IF Has(ind, "items") THEN ind.items ELSE <<>>, numero)

-----------------------------------------------------------------------------
(* Amendment Resolver: buscarModificacionesArticulo *)

NaN == [nan |-> TRUE, t |-> 0]

Fecha(t) == [nan |-> FALSE, t |-> t]

\* Date parsing of the date strings of the model: the time value (in days
\* of the model's calendar) of a string that is a date, NaN of any other.
\* Two strings may denote the same instant.
ParseFecha(s) ==
    CASE s = "2019-01-01" -> Fecha(1)
      [] s = "2020-01-01" -> Fecha(2)
      [] s = "2020-01-01T00:00:00Z" -> Fecha(2)
      [] s = "2020-06-01" -> Fecha(3)
      [] s = "2021-01-01" -> Fecha(4)
      [] OTHER -> NaN

\* new Date(modificacion.fecha): new Date(undefined) is an Invalid Date
NewDate(m) == IF Has(m, "fecha") THEN ParseFecha(m.fecha) ELSE NaN

\* a mutant of MayorOIgual: the comparison is strict
MayorEstricto(a, b) == ~a.nan /\ ~b.nan /\ a.t > b.t

\* a mutant of MayorOIgual: the test is written !(a < b), which an Invalid
\* Date passes
NoMenor(a, b) == ~(~a.nan /\ ~b.nan /\ a.t < b.t)

\* a >= b on Dates: both are converted to their time values, and every
\* comparison with NaN is false
MayorOIgual(a, b) == ~a.nan /\ ~b.nan /\ a.t >= b.t

\* a > b on Dates
Mayor(a, b) == ~a.nan /\ ~b.nan /\ a.t > b.t

\* modificacion.afectado && modificacion.afectado.includes(articuloId)
Afecta(m, articuloId) ==
    TruthySeq(m, "afectado") /\ Includes(m.afectado, articuloId)

\* the object pushed to resultado.detalles; `x || 'No disponible'`
Detalle(m) ==
    [fecha |-> Get(m, "fecha"),
     referencia |-> IF Truthy(m, "referencia") THEN m.referencia ELSE NoDisponible,
     texto |-> IF Truthy(m, "texto") THEN m.texto ELSE NoDisponible]

\* a mutant of NuevaUltima: the running maximum is replaced on >=
NuevaUltimaNoEstricta(ultima, m) ==
    IF Falsy(ultima) \/ MayorOIgual(NewDate(m), ParseFecha(ultima))
    THEN Get(m, "fecha")
    ELSE ultima

\* the update of resultado.fechaUltimaModificacion
NuevaUltima(ultima, m) ==
    IF Falsy(ultima) \/ Mayor(NewDate(m), ParseFecha(ultima))
    THEN Get(m, "fecha")
    ELSE ultima

\* a mutant of Paso: the detail is put at the front of detalles
PasoAlFrente(res, m, articuloId, fechaRef) ==
    IF Afecta(m, articuloId) /\ MayorOIgual(NewDate(m), fechaRef)
    THEN [modificado |-> TRUE,
          fechaUltimaModificacion |-> NuevaUltima(res.fechaUltimaModificacion, m),
          detalles |-> <<Detalle(m)>> \o res.detalles]
    ELSE res

\* the body of the for loop, applied to one record
Paso(res, m, articuloId, fechaRef) ==
    IF Afecta(m, articuloId) /\ MayorOIgual(NewDate(m), fechaRef)
    THEN [modificado |-> TRUE,
          fechaUltimaModificacion |-> NuevaUltima(res.fechaUltimaModificacion, m),
          detalles |-> Append(res.detalles, Detalle(m))]
    ELSE res

RECURSIVE Recorrer(_, _, _, _)
\* the for loop over analisis.analisis.modificaciones
Recorrer(mods, res, articuloId, fechaRef) ==
    IF mods = <<>> THEN res
    ELSE Recorrer(Tail(mods), Paso(res, Head(mods), articuloId, fechaRef),
                  articuloId, fechaRef)

ResultadoInicial ==
    [modificado |-> FALSE, fechaUltimaModificacion |-> Nulo, detalles |-> <<>>]

\* !analisis.analisis || !analisis.analisis.modificaciones
SinModificaciones(an) ==
    ~Has(an, "analisis") \/ ~Has(an.analisis, "modificaciones")

\* a mutant of buscarModificacionesArticulo: an analysis without the
\* collection is reported as modified
buscarModificacionesSinGuarda(an, articuloId, fechaRef) ==
    IF SinModificaciones(an)
    THEN [ResultadoInicial EXCEPT !.modificado = TRUE]
    ELSE Recorrer(an.analisis.modificaciones, ResultadoInicial, articuloId, fechaRef)

buscarModificacionesArticulo(an, articuloId, fechaRef) ==
    IF SinModificaciones(an)
    THEN ResultadoInicial
    ELSE Recorrer(an.analisis.modificaciones, ResultadoInicial, articuloId, fechaRef)

-----------------------------------------------------------------------------
(* Index documents of the model *)

Numeros == { <<"5", "1">>, <<"5">> }

Rotulos ==
    { [tipo |-> "articulo", titulo |-> <<"Artículo ", "5", "1">>],
      [tipo |-> "articulo", titulo |-> <<"ARTÍCULO ", "5", "1">>],
      [tipo |-> "articulo", titulo |-> <<"artículo ", "5", "1">>],
      [tipo |-> "articulo", titulo |-> <<"Artículo ", "5">>],
      [tipo |-> "articulo"],
      [tipo |-> "capitulo", titulo |-> <<"Artículo ", "5", "1">>] }

Cifra == <<"1", "2", "3", "4", "5", "6", "7", "8", "9">>

\* a node: its label, its id (the path from the root) and its sub-items;
\* a node without sub-items has no items field
Nodo(rotulo, hijos) ==
    IF hijos = <<>> THEN rotulo ELSE rotulo @@ [items |-> hijos]

RECURSIVE Bosques(_)
\* the lists of nodes with n nodes in all, ids not yet assigned
Bosques(n) ==
    IF n = 0 THEN { <<>> }
    ELSE UNION { { <<Nodo(r, hijos)>> \o resto :
                     r \in Rotulos, hijos \in Bosques(k), resto \in Bosques(n - 1 - k) } :
                 k \in 0..(n - 1) }

RECURSIVE ConIds(_, _)
\* the list of nodes with every node given the id of its position
ConIds(items, prefijo) ==
    [k \in 1..Len(items) |->
        LET id == prefijo \o <<Cifra[k]>>
            it == items[k]
        IN  IF Has(it, "items")
            THEN [it EXCEPT !.items = ConIds(it.items, id)] @@ [id |-> id]
            ELSE it @@ [id |-> id]]

Indices(n) ==
    { [nombre |-> "sin items"] } \cup
    { [items |-> ConIds(b, <<"a">>)] : b \in UNION { Bosques(m) : m \in 0..n } }

-----------------------------------------------------------------------------
(* Analysis documents of the model *)

Ids == { <<"a", "1">>, <<"a", "1", "1">> }

FechasTexto ==
    { "2019-01-01", "2020-01-01", "2020-01-01T00:00:00Z", "2020-06-01", "sin fecha" }

FechasReferencia == { Fecha(2), Fecha(3) }

\* the amendment records: with and without each field
Registros ==
    { [afectado |-> <<"a", "1", "1">>, fecha |-> f] : f \in FechasTexto }
    \cup { [afectado |-> <<"a", "2">>, fecha |-> "2020-06-01"],
           [afectado |-> <<"a", "2">>, fecha |-> "sin fecha"],
           [fecha |-> "2020-06-01"],
           [afectado |-> <<"a", "1", "1">>] }
    \cup { [afectado |-> <<"a", "1", "1">>, fecha |-> "2020-01-01",
            referencia |-> "", texto |-> "Se añade"],
           [afectado |-> <<"a", "1", "1">>, fecha |-> "2020-06-01",
            referencia |-> "BOE-A-2020-2", texto |-> ""] }

RECURSIVE Listas(_, _)
\* the sequences over S of length at most n
Listas(S, n) ==
    IF n = 0 THEN { <<>> }
    ELSE { <<>> } \cup { <<x>> \o l : x \in S, l \in Listas(S, n - 1) }

AnalisisSinColeccion ==
    { [status |-> "ok"], [analisis |-> [materias |-> <<>>]] }

Analisis(n) ==
    AnalisisSinColeccion
    \cup { [analisis |-> [modificaciones |-> l]] : l \in Listas(Registros, n) }

-----------------------------------------------------------------------------
(* SpecLocator: buscarArticuloEnIndice applied to every index document *)

Inactivo ==
    /\ articulos = <<>>
    /\ i = 0
    /\ resultados = <<>>
    /\ resultado = JSNull
    /\ llamadas = <<>>
    /\ escapadas = 0
    /\ informe = JSNull

InitLocator ==
    /\ pc = "buscarArticuloEnIndice"
    /\ numeroArticulo \in Numeros
    /\ indice \in Indices(MaxNodos)
    /\ articulo = JSNull
    /\ fechaReferencia = Fecha(0)
    /\ analisis = JSNull
    /\ modificaciones = JSNull
    /\ Inactivo

Localizar ==
    /\ pc = "buscarArticuloEnIndice"
    /\ articulo' = buscarArticuloEnIndice(indice, numeroArticulo)
    /\ pc' = "localizado"
    /\ UNCHANGED <<articulos, fechaReferencia, i, resultados, numeroArticulo, indice,
                   analisis, modificaciones, resultado, llamadas, escapadas, informe>>

NextLocator == Localizar

SpecLocator == InitLocator /\ [][NextLocator]_vars

-----------------------------------------------------------------------------
(* SpecResolver: buscarModificacionesArticulo applied to every analysis *)

InitResolver ==
    /\ pc = "buscarModificacionesArticulo"
    /\ numeroArticulo = <<>>
    /\ indice = JSNull
    /\ articulo \in { [id |-> id] : id \in Ids }
    /\ fechaReferencia \in FechasReferencia
    /\ analisis \in Analisis(MaxMods)
    /\ modificaciones = JSNull
    /\ Inactivo

Resolver ==
    /\ pc = "buscarModificacionesArticulo"
    /\ modificaciones' = buscarModificacionesArticulo(analisis, articulo.id, fechaReferencia)
    /\ pc' = "resuelto"
    /\ UNCHANGED <<articulos, fechaReferencia, i, resultados, numeroArticulo, indice,
                   articulo, analisis, resultado, llamadas, escapadas, informe>>

NextResolver == Resolver

SpecResolver == InitResolver /\ [][NextResolver]_vars

-----------------------------------------------------------------------------
(* The orchestrator comprobarModificacionArticulo and the batch loop of main *)

\* data/abreviaturas.json as read by leerAbreviaturas
Abreviaturas ==
    [CC |-> [id |-> "BOE-A-1889-4763", nombre |-> "Código Civil"]]

\* the lines of data/articulos.txt as parsed by leerArticulos
LineasArticulo ==
    { [numero |-> <<"5", "1">>, abreviatura |-> "CC"],
      [numero |-> <<"5">>, abreviatura |-> "CC"],
      [numero |-> <<"5", "1">>, abreviatura |-> "XX"] }

\* what the index request can end with: a rejection (error.message), or a
\* response body: null, a document without items, a document with items
FallosIndice == { "Network Error", "Request failed with status code 500" }

CuerposIndice ==
    { JSNull,
      [nombre |-> "sin items"],
      [items |-> ConIds(<<[tipo |-> "articulo", titulo |-> <<"Artículo ", "5", "1">>]>>,
                        <<"a">>)],
      [items |-> ConIds(<<[tipo |-> "capitulo",
                           items |-> <<[tipo |-> "articulo",
                                        titulo |-> <<"Artículo ", "5">>]>>]>>,
                        <<"a">>)] }

\* what the analysis request can end with
FallosAnalisis == { "Request failed with status code 404" }

CuerposAnalisis ==
    { JSNull }
    \cup AnalisisSinColeccion
    \cup { [analisis |-> [modificaciones |->
               << [afectado |-> <<"a", "1", "1">>, fecha |-> "2020-06-01"] >>]],
           [analisis |-> [modificaciones |->
               << [afectado |-> <<"a", "1", "1">>, fecha |-> "2021-01-01",
                   referencia |-> "BOE-A-2021-1"],
                  [afectado |-> <<"a", "1", "1">>, fecha |-> "sin fecha"],
                  [afectado |-> <<"a", "1", "1">>, fecha |-> "2020-01-01",
                   texto |-> "Se modifica"] >>]] }

FechasLote == { Fecha(2), Fecha(4) }

\* how a call ends: it returns a value or it throws an error
Retorna(v) == [lanza |-> FALSE, valor |-> v]

Lanza(msg) == [lanza |-> TRUE, message |-> msg]

\* the body has not returned: it goes on to its next statement
Continua == [lanza |-> FALSE, valor |-> JSNull]

\* a mutant of Capturar: the catch block rethrows, as the ones of
\* obtenerIndice and obtenerAnalisisLey do
Relanzar(salida) == salida

\* the try/catch of comprobarModificacionArticulo around its whole body
Capturar(salida) ==
    IF salida.lanza
    THEN Retorna([encontrado |-> FALSE, error |-> salida.message])
    ELSE salida

\* the code from the index response to the next await or return:
\* buscarArticuloEnIndice reads indice.items, which throws on null
TrasIndice(ind, numero, docId) ==
    IF ind = JSNull
    THEN Lanza("Cannot read properties of null (reading 'items')")
    ELSE IF buscarArticuloEnIndice(ind, numero) = JSNull
         THEN Retorna([encontrado |-> FALSE,
                       mensaje |-> [texto |-> "No se encontró el artículo",
                                    numero |-> numero, docId |-> docId]])
         ELSE Continua

\* the code from the analysis response to the return:
\* buscarModificacionesArticulo reads analisis.analisis, which throws on null
TrasAnalisis(an, art, fechaRef) ==
    IF an = JSNull
    THEN Lanza("Cannot read properties of null (reading 'analisis')")
    ELSE LET m == buscarModificacionesArticulo(an, art.id, fechaRef)
         IN  Retorna([encontrado |-> TRUE,
                      articuloId |-> art.id,
                      titulo |-> art.titulo,
                      modificado |-> m.modificado,
                      fechaUltimaModificacion |-> m.fechaUltimaModificacion,
                      detallesModificacion |-> m.detalles])

\* an external call (axios.get) as issued: not yet settled
Llamada(api, art) == [api |-> api, art |-> art, estado |-> "pendiente", message |-> Nulo]

\* the last call issued is settled: fulfilled ("ok") or rejected with a message
Resuelta(ls, estado, msg) ==
    [ls EXCEPT ![Len(ls)].estado = estado, ![Len(ls)].message = msg]

Pendientes == { k \in 1..Len(llamadas) : llamadas[k].estado = "pendiente" }

DocId == Abreviaturas[articulos[i].abreviatura].id

Init ==
    /\ pc = "bucle"
    /\ articulos \in Listas(LineasArticulo, MaxArticulos)
    /\ fechaReferencia \in FechasLote
    /\ i = 1
    /\ resultados = <<>>
    /\ numeroArticulo = <<>>
    /\ indice = JSNull
    /\ articulo = JSNull
    /\ analisis = JSNull
    /\ modificaciones = JSNull
    /\ resultado = JSNull
    /\ llamadas = <<>>
    /\ escapadas = 0
    /\ informe = JSNull

\* main: the abbreviation is not in abreviaturas; push and continue
AbreviaturaNoReconocida ==
    /\ pc = "bucle"
    /\ i <= Len(articulos)
    /\ articulos[i].abreviatura \notin DOMAIN Abreviaturas
    /\ resultados' = Append(resultados,
           [encontrado |-> FALSE,
            mensaje |-> [texto |-> "Abreviatura no reconocida",
                         abreviatura |-> articulos[i].abreviatura]]
           @@ articulos[i])
    /\ i' = i + 1
    /\ UNCHANGED <<pc, articulos, fechaReferencia, numeroArticulo, indice, articulo,
                   analisis, modificaciones, resultado, llamadas, escapadas, informe>>

\* main calls comprobarModificacionArticulo, which calls obtenerIndice, which
\* issues the index request and awaits it
LlamarObtenerIndice ==
    /\ pc = "bucle"
    /\ i <= Len(articulos)
    /\ articulos[i].abreviatura \in DOMAIN Abreviaturas
    /\ numeroArticulo' = articulos[i].numero
    /\ llamadas' = Append(llamadas, Llamada("indice", i))
    /\ pc' = "obtenerIndice"
    /\ UNCHANGED <<articulos, fechaReferencia, i, resultados, indice, articulo,
                   analisis, modificaciones, resultado, escapadas, informe>>

\* a mutant of IndiceFalla: the failed index request is issued again
IndiceFallaConReintento ==
    /\ pc = "obtenerIndice"
    /\ \E msg \in FallosIndice :
          llamadas' = Append(Resuelta(llamadas, "fallo", msg), Llamada("indice", i))
    /\ UNCHANGED <<pc, articulos, fechaReferencia, i, resultados, numeroArticulo,
                   indice, articulo, analisis, modificaciones, resultado, escapadas,
                   informe>>

\* the index request is rejected: obtenerIndice logs and rethrows, the catch
\* of comprobarModificacionArticulo makes the result
IndiceFalla ==
    /\ pc = "obtenerIndice"
    /\ \E msg \in FallosIndice :
          /\ resultado' = Capturar(Lanza(msg))
          /\ llamadas' = Resuelta(llamadas, "fallo", msg)
    /\ escapadas' = escapadas + (IF resultado'.lanza THEN 1 ELSE 0)
    /\ pc' = "retorno"
    /\ UNCHANGED <<articulos, fechaReferencia, i, resultados, numeroArticulo, indice,
                   articulo, analisis, modificaciones, informe>>

\* the index request is answered: the article is sought; not found returns,
\* found issues the analysis request and awaits it
IndiceResponde ==
    /\ pc = "obtenerIndice"
    /\ \E ind \in CuerposIndice :
          LET salida == Capturar(TrasIndice(ind, numeroArticulo, DocId))
              sigue == salida = Continua
          IN  /\ indice' = ind
              /\ IF sigue
                 THEN /\ articulo' = buscarArticuloEnIndice(ind, numeroArticulo)
                      /\ llamadas' = Append(Resuelta(llamadas, "ok", Nulo), Llamada("analisis", i))
                      /\ pc' = "obtenerAnalisisLey"
                      /\ UNCHANGED <<resultado, escapadas>>
                 ELSE /\ resultado' = salida
                      /\ llamadas' = Resuelta(llamadas, "ok", Nulo)
                      /\ escapadas' = escapadas + (IF salida.lanza THEN 1 ELSE 0)
                      /\ pc' = "retorno"
                      /\ UNCHANGED articulo
    /\ UNCHANGED <<articulos, fechaReferencia, i, resultados, numeroArticulo,
                   analisis, modificaciones, informe>>

\* the analysis request is rejected
AnalisisFalla ==
    /\ pc = "obtenerAnalisisLey"
    /\ \E msg \in FallosAnalisis :
          /\ resultado' = Capturar(Lanza(msg))
          /\ llamadas' = Resuelta(llamadas, "fallo", msg)
    /\ escapadas' = escapadas + (IF resultado'.lanza THEN 1 ELSE 0)
    /\ pc' = "retorno"
    /\ UNCHANGED <<articulos, fechaReferencia, i, resultados, numeroArticulo, indice,
                   articulo, analisis, modificaciones, informe>>

\* the analysis request is answered: the amendments are resolved and the
\* result assembled
AnalisisResponde ==
    /\ pc = "obtenerAnalisisLey"
    /\ \E an \in CuerposAnalisis :
          /\ analisis' = an
          /\ modificaciones' =
                 IF an = JSNull THEN JSNull
                 ELSE buscarModificacionesArticulo(an, articulo.id, fechaReferencia)
          /\ resultado' = Capturar(TrasAnalisis(an, articulo, fechaReferencia))
    /\ llamadas' = Resuelta(llamadas, "ok", Nulo)
    /\ escapadas' = escapadas + (IF resultado'.lanza THEN 1 ELSE 0)
    /\ pc' = "retorno"
    /\ UNCHANGED <<articulos, fechaReferencia, i, resultados, numeroArticulo, indice,
                   articulo, informe>>

\* main after the await: the result is pushed with the article's fields (or,
\* in the catch of the loop body, an error result) and the loop goes on; the
\* locals of the finished call are gone
Empujar ==
    /\ pc = "retorno"
    /\ resultados' = Append(resultados,
           IF resultado.lanza
           THEN [encontrado |-> FALSE, error |-> resultado.message, docId |-> DocId]
                @@ articulos[i]
           ELSE [docId |-> DocId, nombreLey |-> Abreviaturas[articulos[i].abreviatura].nombre]
                @@ resultado.valor @@ articulos[i])
    /\ i' = i + 1
    /\ pc' = "bucle"
    /\ numeroArticulo' = <<>>
    /\ indice' = JSNull
    /\ articulo' = JSNull
    /\ analisis' = JSNull
    /\ modificaciones' = JSNull
    /\ resultado' = JSNull
    /\ UNCHANGED <<articulos, fechaReferencia, llamadas, escapadas, informe>>

InformeInicial(rs) ==
    [totalArticulos |-> Len(rs),
     articulosModificados |-> 0,
     articulosNoEncontrados |-> 0,
     articulosConError |-> 0,
     modificados |-> <<>>,
     noModificados |-> <<>>,
     noEncontrados |-> <<>>,
     conError |-> <<>>]

\* a mutant of Clasificar: the test of resultado.error has no else
ClasificarSinElse(inf, r, k) ==
    IF ~r.encontrado
    THEN LET e == IF Truthy(r, "error")
                  THEN [inf EXCEPT !.articulosConError = @ + 1,
                                   !.conError = Append(@, k)]
                  ELSE inf
         IN  [e EXCEPT !.articulosNoEncontrados = @ + 1,
                       !.noEncontrados = Append(@, k)]
    ELSE IF Has(r, "modificado") /\ r.modificado
         THEN [inf EXCEPT !.articulosModificados = @ + 1,
                          !.modificados = Append(@, k)]
         ELSE [inf EXCEPT !.noModificados = Append(@, k)]

\* the callback of resultados.forEach, applied to the k-th result (the lists
\* hold the positions of the results they were given)
Clasificar(inf, r, k) ==
    IF ~r.encontrado
    THEN IF Truthy(r, "error")
         THEN [inf EXCEPT !.articulosConError = @ + 1,
                          !.conError = Append(@, k)]
         ELSE [inf EXCEPT !.articulosNoEncontrados = @ + 1,
                          !.noEncontrados = Append(@, k)]
    ELSE IF Has(r, "modificado") /\ r.modificado
         THEN [inf EXCEPT !.articulosModificados = @ + 1,
                          !.modificados = Append(@, k)]
         ELSE [inf EXCEPT !.noModificados = Append(@, k)]

RECURSIVE ClasificarDesde(_, _, _)
\* resultados.forEach from position k on
ClasificarDesde(inf, rs, k) ==
    IF k > Len(rs) THEN inf
    ELSE ClasificarDesde(Clasificar(inf, rs[k], k), rs, k + 1)

\* the summary lines of the report, with the count of not modified articles
\* computed by subtraction
Resumen(inf) ==
    inf @@ [impresoNoModificados |->
               inf.totalArticulos - inf.articulosModificados
               - inf.articulosNoEncontrados - inf.articulosConError]

\* main after the loop: generarInforme classifies the results
GenerarInforme ==
    /\ pc = "bucle"
    /\ i > Len(articulos)
    /\ informe' = Resumen(ClasificarDesde(InformeInicial(resultados), resultados, 1))
    /\ pc' = "fin"
    /\ UNCHANGED <<articulos, fechaReferencia, i, resultados, numeroArticulo, indice,
                   articulo, analisis, modificaciones, resultado, llamadas, escapadas>>

Next ==
    \/ AbreviaturaNoReconocida
    \/ LlamarObtenerIndice
    \/ IndiceFalla
    \/ IndiceResponde
    \/ AnalisisFalla
    \/ AnalisisResponde
    \/ Empujar
    \/ GenerarInforme

Spec == Init /\ [][Next]_vars

-----------------------------------------------------------------------------
(* Properties of the Index Locator, under SpecLocator *)

RECURSIVE Preorden(_)
\* the nodes of a list of items in depth-first pre-order
Preorden(items) ==
    IF items = <<>> THEN <<>>
    ELSE <<Head(items)>>
         \o (IF Has(Head(items), "items") THEN Preorden(Head(items).items) ELSE <<>>)
         \o Preorden(Tail(items))

NodosDelIndice == Preorden(IF Has(indice, "items") THEN indice.items ELSE <<>>)

\* the positions, in pre-order, of the nodes the code's predicate accepts
Candidatos == { k \in 1..Len(NodosDelIndice) : Coincide(NodosDelIndice[k], numeroArticulo) }

Minimo(S) == CHOOSE k \in S : \A j \in S : k <= j

\* C2: buscarArticuloEnIndice returns the matching node that comes first in
\* depth-first pre-order, and null when no node matches.
C2_PrimeroEnPreorden ==
    pc = "localizado" =>
        IF Candidatos = {}
        THEN articulo = JSNull
        ELSE articulo = NodosDelIndice[Minimo(Candidatos)]

\* C2 witness: two nodes match, the first of them in pre-order lies below a
\* top-level node that does not match, the other one is a top-level node,
\* and the nested one is returned.
C2_Witness ==
    /\ pc = "localizado"
    /\ Cardinality(Candidatos) >= 2
    /\ articulo # JSNull
    /\ Len(articulo.id) = 3
    /\ \E k \in Candidatos : Len(NodosDelIndice[k].id) = 2

\* the predicate of the claim, letter case ignored
AceptaSinCaja(n) ==
    /\ n.tipo = "articulo"
    /\ Has(n, "titulo")
    /\ Includes(EnMinusculas(n.titulo), EnMinusculas(<<"Artículo ">> \o numeroArticulo))

\* the predicate of the code, letter case respected
AceptaConCaja(n) ==
    /\ n.tipo = "articulo"
    /\ Has(n, "titulo")
    /\ Includes(n.titulo, <<"Artículo ">> \o numeroArticulo)

\* C7 as stated: a node is returned exactly when some node is of article kind
\* and its label contains "Artículo <number>" compared case-insensitively,
\* and the node returned is such a node.
C7_SinCaja ==
    pc = "localizado" =>
        /\ (articulo # JSNull) <=>
               (\E k \in 1..Len(NodosDelIndice) : AceptaSinCaja(NodosDelIndice[k]))
        /\ articulo # JSNull => AceptaSinCaja(articulo)

\* C7 as amended: the label is compared case-sensitively. A node is returned
\* exactly when some node is of article kind and its label contains the
\* literal "Artículo <number>"; the node returned is such a node; a node of
\* another kind, without label, or whose label has the words in another
\* letter case is never returned.
C7_ConCaja ==
    pc = "localizado" =>
        /\ (articulo # JSNull) <=>
               (\E k \in 1..Len(NodosDelIndice) : AceptaConCaja(NodosDelIndice[k]))
        /\ articulo # JSNull => AceptaConCaja(articulo)

\* C7 witness: the index holds a node of article kind labelled "ARTÍCULO 51",
\* the number sought is 51, and nothing is returned.
C7_Witness ==
    /\ pc = "localizado"
    /\ numeroArticulo = <<"5", "1">>
    /\ \E k \in 1..Len(NodosDelIndice) :
          /\ NodosDelIndice[k].tipo = "articulo"
          /\ Has(NodosDelIndice[k], "titulo")
          /\ NodosDelIndice[k].titulo = <<"ARTÍCULO ", "5", "1">>
    /\ articulo = JSNull

-----------------------------------------------------------------------------
(* Properties of the Amendment Resolver, under SpecResolver *)

Coleccion ==
    IF Has(analisis, "analisis") /\ Has(analisis.analisis, "modificaciones")
    THEN analisis.analisis.modificaciones
    ELSE <<>>

\* the instant of a record's date, when the date parses
Instante(m) == ParseFecha(m.fecha).t

FechaValida(m) == Has(m, "fecha") /\ ~ParseFecha(m.fecha).nan

\* a record qualifies: its afectado contains the article id and its date is
\* on or after the reference date
Califica(m) ==
    /\ Has(m, "afectado")
    /\ Includes(m.afectado, articulo.id)
    /\ FechaValida(m)
    /\ Instante(m) >= fechaReferencia.t

Calificados == { k \in 1..Len(Coleccion) : Califica(Coleccion[k]) }

\* the first record, in the collection's order, among those of greatest date
PrimerMaximo ==
    Minimo({ k \in Calificados :
               \A j \in Calificados : Instante(Coleccion[k]) >= Instante(Coleccion[j]) })

\* C3: modificado is true exactly when some record qualifies;
\* fechaUltimaModificacion is the greatest date among the qualifying records,
\* in the words of the first record that has it, and null when none does.
C3_UltimaModificacion ==
    pc = "resuelto" =>
        /\ modificaciones.modificado = (Calificados # {})
        /\ IF Calificados = {}
           THEN modificaciones.fechaUltimaModificacion = Nulo
           ELSE modificaciones.fechaUltimaModificacion = Coleccion[PrimerMaximo].fecha

\* C3 witness: two qualifying records denote the same greatest instant in
\* different words, and the words of the first are the ones kept.
C3_Witness ==
    /\ pc = "resuelto"
    /\ \E j, k \in Calificados :
          /\ j < k
          /\ Coleccion[j].fecha # Coleccion[k].fecha
          /\ Instante(Coleccion[j]) = Instante(Coleccion[k])
          /\ \A l \in Calificados : Instante(Coleccion[l]) <= Instante(Coleccion[j])
          /\ modificaciones.fechaUltimaModificacion = Coleccion[j].fecha

AfectaAlArticulo(m) == Has(m, "afectado") /\ Includes(m.afectado, articulo.id)

EnDetalles(m) ==
    \E j \in 1..Len(modificaciones.detalles) : modificaciones.detalles[j].fecha = m.fecha

EntradaSiAusente(m) ==
    [fecha |-> m.fecha,
     referencia |-> IF Has(m, "referencia") THEN m.referencia ELSE "No disponible",
     texto |-> IF Has(m, "texto") THEN m.texto ELSE "No disponible"]

\* the entry of detalles of the code: a field is replaced when the record
\* does not have it or has it empty
EntradaSiVacio(m) ==
    [fecha |-> m.fecha,
     referencia |-> IF Has(m, "referencia") /\ m.referencia # ""
                    THEN m.referencia ELSE "No disponible",
     texto |-> IF Has(m, "texto") /\ m.texto # "" THEN m.texto ELSE "No disponible"]

LosCalificados == SelectSeq(Coleccion, Califica)

\* C5 as stated: detalles holds one entry per qualifying record, in the order
\* of the collection, with referencia and texto replaced by "No disponible"
\* when absent.
C5_DetallesSiAusente ==
    pc = "resuelto" =>
        modificaciones.detalles =
            [k \in 1..Len(LosCalificados) |-> EntradaSiAusente(LosCalificados[k])]

\* C5 as amended: detalles holds one entry per qualifying record and none for
\* any other record, in the order of the collection (never sorted by date);
\* each entry carries the record's fecha, and its referencia and texto, each
\* replaced by "No disponible" when absent or empty.
C5_DetallesEnOrden ==
    pc = "resuelto" =>
        modificaciones.detalles =
            [k \in 1..Len(LosCalificados) |-> EntradaSiVacio(LosCalificados[k])]

\* C5 witness: two records qualify, the later date comes first in the
\* collection and first in detalles, and an empty referencia was replaced.
C5_Witness ==
    /\ pc = "resuelto"
    /\ Len(modificaciones.detalles) = 2
    /\ ParseFecha(modificaciones.detalles[1].fecha).t
           > ParseFecha(modificaciones.detalles[2].fecha).t
    /\ Len(LosCalificados) = 2
    /\ Has(LosCalificados[2], "referencia")
    /\ LosCalificados[2].referencia = ""
    /\ modificaciones.detalles[2].referencia = "No disponible"

FechaIlegible(m) == NewDate(m).nan

SinIlegibles ==
    IF Has(analisis, "analisis") /\ Has(analisis.analisis, "modificaciones")
    THEN [analisis EXCEPT !.analisis.modificaciones =
             SelectSeq(@, LAMBDA m : ~FechaIlegible(m))]
    ELSE analisis

\* C8: a record whose date does not parse never qualifies and never aborts
\* the resolution: the call returns, no entry of detalles comes from such a
\* record, and the result is the result for the collection without the
\* records whose date does not parse.
C8_FechaIlegible ==
    pc = "resuelto" =>
        /\ modificaciones # JSNull
        /\ \A j \in 1..Len(modificaciones.detalles) :
              ~ParseFecha(modificaciones.detalles[j].fecha).nan
        /\ modificaciones =
              buscarModificacionesArticulo(SinIlegibles, articulo.id, fechaReferencia)

\* C8 witness: a record that affects the article and whose date does not
\* parse stands between two qualifying records, and detalles holds the two.
C8_Witness ==
    /\ pc = "resuelto"
    /\ Len(Coleccion) = 3
    /\ Califica(Coleccion[1])
    /\ AfectaAlArticulo(Coleccion[2]) /\ FechaIlegible(Coleccion[2])
    /\ Califica(Coleccion[3])
    /\ Len(modificaciones.detalles) = 2
    /\ modificaciones.modificado

-----------------------------------------------------------------------------
(* Properties of the orchestrator and of the batch, under Spec *)

UltimaLlamada == llamadas[Len(llamadas)]

\* C1: comprobarModificacionArticulo never raises. No exception leaves it;
\* whenever it has ended it has returned a result object; when the request
\* it awaited was rejected, or answered with a null body, the result has
\* encontrado = false and error = the message of the failure.
C1_NuncaLanza ==
    /\ escapadas = 0
    /\ pc = "retorno" =>
          /\ ~resultado.lanza
          /\ Has(resultado.valor, "encontrado")
          /\ UltimaLlamada.estado = "fallo" =>
                /\ ~resultado.valor.encontrado
                /\ Has(resultado.valor, "error")
                /\ resultado.valor.error = UltimaLlamada.message
          /\ (UltimaLlamada.estado = "ok" /\ UltimaLlamada.api = "indice" /\ indice = JSNull) =>
                /\ ~resultado.valor.encontrado
                /\ Has(resultado.valor, "error")
    /\ \A k \in 1..Len(resultados) : Has(resultados[k], "encontrado")

\* C1 witness: the index was fetched, the article located, the analysis
\* request was rejected, and the call returned found = false with the message.
C1_Witness ==
    /\ pc = "retorno"
    /\ Len(llamadas) >= 2
    /\ UltimaLlamada.api = "analisis"
    /\ UltimaLlamada.estado = "fallo"
    /\ ~resultado.lanza
    /\ ~resultado.valor.encontrado
    /\ resultado.valor.error = "Request failed with status code 404"

\* the positions classified by the report
Clasificados(inf) ==
    inf.modificados \o inf.noModificados \o inf.noEncontrados \o inf.conError

\* C6: the batch yields one result per article, in input order, whatever each
\* check ended with; the report puts every result in exactly one of the four
\* classes and its four counts add up to the number of articles.
C6_UnResultadoPorArticulo ==
    /\ Len(resultados) <= Len(articulos)
    /\ pc = "bucle" => Len(resultados) = i - 1
    /\ \A k \in 1..Len(resultados) :
          /\ resultados[k].numero = articulos[k].numero
          /\ resultados[k].abreviatura = articulos[k].abreviatura
    /\ pc = "fin" =>
          /\ Len(resultados) = Len(articulos)
          /\ informe.totalArticulos = Len(articulos)
          /\ Len(Clasificados(informe)) = Len(articulos)
          /\ \A k \in 1..Len(articulos) :
                \E j \in 1..Len(Clasificados(informe)) : Clasificados(informe)[j] = k
          /\ informe.articulosModificados = Len(informe.modificados)
          /\ informe.impresoNoModificados = Len(informe.noModificados)
          /\ informe.articulosNoEncontrados = Len(informe.noEncontrados)
          /\ informe.articulosConError = Len(informe.conError)
          /\ informe.articulosModificados + informe.impresoNoModificados
             + informe.articulosNoEncontrados + informe.articulosConError
             = Len(articulos)

\* C6 witness: the first article's check failed on a rejected request, the
\* second article was still checked and found modified, and the report
\* counts one errored and one modified article.
C6_Witness ==
    /\ pc = "fin"
    /\ Len(articulos) = 2
    /\ Has(resultados[1], "error")
    /\ resultados[2].encontrado
    /\ resultados[2].modificado
    /\ informe.conError = <<1>>
    /\ informe.modificados = <<2>>

\* C9: when the analysis has no amendments collection,
\* buscarModificacionesArticulo returns modificado = false,
\* fechaUltimaModificacion = null and detalles = [], and the check returns a
\* result with encontrado = true and modificado = false, not an error result.
C9_SinColeccion ==
    (/\ pc = "retorno"
     /\ analisis # JSNull
     /\ (~Has(analisis, "analisis") \/ ~Has(analisis.analisis, "modificaciones")))
    => /\ modificaciones =
             [modificado |-> FALSE, fechaUltimaModificacion |-> Nulo, detalles |-> <<>>]
       /\ ~resultado.lanza
       /\ resultado.valor.encontrado
       /\ ~resultado.valor.modificado
       /\ resultado.valor.fechaUltimaModificacion = Nulo
       /\ resultado.valor.detallesModificacion = <<>>
       /\ ~Has(resultado.valor, "error")

\* C9 witness: the analysis answered is a document without the analisis
\* field, and the check returned found and not modified.
C9_Witness ==
    /\ pc = "retorno"
    /\ analisis = [status |-> "ok"]
    /\ ~resultado.lanza
    /\ resultado.valor.encontrado
    /\ ~resultado.valor.modificado

\* C10: the external calls are strictly ordered. At most one call is
\* outstanding, and it is the last one issued; no call is issued twice for
\* the same article; an analysis call directly follows the fulfilled index
\* call of the same article, with the article located; a call for article k
\* is issued only when the k-1 articles before it have their results; an
\* article whose result is "not found" had no analysis call and carries no
\* modification fields.
C10_LlamadasEnOrden ==
    /\ Cardinality(Pendientes) <= 1
    /\ \A k \in Pendientes : k = Len(llamadas)
    /\ (Pendientes # {}) <=> (pc \in {"obtenerIndice", "obtenerAnalisisLey"})
    /\ \A j, k \in 1..Len(llamadas) :
          (j < k) => ~(llamadas[j].api = llamadas[k].api /\ llamadas[j].art = llamadas[k].art)
    /\ \A k \in 1..Len(llamadas) :
          /\ llamadas[k].art <= i
          /\ Len(resultados) >= llamadas[k].art - 1
          /\ llamadas[k].estado = "pendiente" => Len(resultados) = llamadas[k].art - 1
          /\ llamadas[k].api = "analisis" =>
                /\ k > 1
                /\ llamadas[k - 1].api = "indice"
                /\ llamadas[k - 1].art = llamadas[k].art
                /\ llamadas[k - 1].estado = "ok"
    /\ pc = "obtenerAnalisisLey" =>
          /\ indice # JSNull
          /\ articulo # JSNull
          /\ articulo \in { NodosDelIndice[k] : k \in 1..Len(NodosDelIndice) }
    /\ \A a \in 1..Len(resultados) :
          ~resultados[a].encontrado =>
             /\ ~Has(resultados[a], "modificado")
             /\ ~Has(resultados[a], "fechaUltimaModificacion")
             /\ ~Has(resultados[a], "detallesModificacion")
             /\ Has(resultados[a], "mensaje") =>
                   ~\E k \in 1..Len(llamadas) :
                       llamadas[k].api = "analisis" /\ llamadas[k].art = a

\* C10 witness: the first article's index and analysis calls are settled and
\* its result pushed, and the second article's index call is outstanding.
C10_Witness ==
    /\ pc = "obtenerIndice"
    /\ i = 2
    /\ Len(resultados) = 1
    /\ Len(llamadas) = 3
    /\ llamadas[1].api = "indice" /\ llamadas[1].art = 1 /\ llamadas[1].estado = "ok"
    /\ llamadas[2].api = "analisis" /\ llamadas[2].art = 1 /\ llamadas[2].estado = "ok"
    /\ llamadas[3].api = "indice" /\ llamadas[3].art = 2
    /\ llamadas[3].estado = "pendiente"

=============================================================================
